---------------------------- MODULE Spec2Model ----------------------------
(***************************************************************************)
(* A model of zine's markdown core (src/src/markdown.rs): the filtering    *)
(* renderer markdown_to_html with its MarkdownVisitor, the plain-text      *)
(* stripper strip_markdown, the description extractor extract_description, *)
(* and of the date deserializer serde_date (src/src/helpers.rs).           *)
(*                                                                         *)
(* Strings are sequences of one-character strings.  The pulldown_cmark     *)
(* parser is an external library: the renderer and the stripper take its   *)
(* event stream as their input, and the extractor, which parses single     *)
(* lines, uses Parse, the parser on the line shapes of ExtractLines.      *)
(***************************************************************************)
EXTENDS Naturals, Integers, Sequences, FiniteSets, TLC

VARIABLES
    \* markdown_to_html
    parsed,      \* the events of Parser::new_ext(markdown, Options::all())
    visitor,     \* which MarkdownVisitor v is
    rpos,        \* number of events the filter_map closure has consumed
    forwarded,   \* the events handed to html::push_html so far
    origin,      \* history: the index in parsed each forwarded event came from
    calls,       \* history: the visitor operations invoked, in order
    outcomes,    \* history: the Visiting returned for each consumed event
    rpc          \* "iter" while push_html pulls events, "done" once html is returned

VARIABLES
    \* strip_markdown
    sevents,     \* the events of Parser::new_ext(markdown, options)
    spos,        \* number of events the for loop has consumed
    buffer,      \* the String being built
    spc,         \* "iter" inside the loop, "done" once buffer is returned
    probe        \* the last direct application of start_tag / end_tag to a tag

VARIABLES
    \* extract_description
    markdown,    \* the input text
    lines,       \* markdown.lines()
    lpos,        \* number of lines find_map has passed to the closure
    description, \* the String returned
    source,      \* history: the index of the line the result was taken from, or 0
    raw,         \* history: strip_markdown(line) of that line
    epc          \* "scan" while find_map runs, "done" once the result is returned

VARIABLES
    \* serde_date::deserialize
    dinput,      \* the value the deserializer holds
    dresult      \* what deserialize came to: pending, Ok(date), Err or a panic

VARIABLES
    \* AuthorId::deserialize
    ainput,      \* the value the deserializer holds
    apos,        \* number of elements visit_seq has taken from the sequence
    authors,     \* the Vec visit_seq builds
    aresult      \* what deserialize came to: pending or Ok(AuthorId)

VARIABLES
    \* two invocations of the markdown core running at once
    inv          \* for each invocation: its operation, input, locals and result

rvars == <<parsed, visitor, rpos, forwarded, origin, calls, outcomes, rpc>>
svars == <<sevents, spos, buffer, spc, probe>>
evars == <<markdown, lines, lpos, description, source, raw, epc>>

dvars == <<dinput, dresult>>

avars == <<ainput, apos, authors, aresult>>

cvars == <<inv>>

vars == <<rvars, svars, evars, dvars, avars, cvars>>

-----------------------------------------------------------------------------
(* Characters and strings *)

DQ == "\""
SQ == "'"
LF == "\n"
SP == " "

-----------------------------------------------------------------------------
(* pulldown_cmark::Tag and pulldown_cmark::Event *)

Tag(name) == [name |-> name, title |-> <<>>]
LinkTag(title) == [name |-> "Link", title |-> title]
NoTag == Tag("None")

Start(tag) == [kind |-> "Start", tag |-> tag, text |-> <<>>]
End(tag) == [kind |-> "End", tag |-> tag, text |-> <<>>]
Text(s) == [kind |-> "Text", tag |-> NoTag, text |-> s]
Code(s) == [kind |-> "Code", tag |-> NoTag, text |-> s]
Html(s) == [kind |-> "Html", tag |-> NoTag, text |-> s]
FootnoteReference(s) == [kind |-> "FootnoteReference", tag |-> NoTag, text |-> s]
SoftBreak == [kind |-> "SoftBreak", tag |-> NoTag, text |-> <<>>]
HardBreak == [kind |-> "HardBreak", tag |-> NoTag, text |-> <<>>]
Rule == [kind |-> "Rule", tag |-> NoTag, text |-> <<>>]
NoEvent == [kind |-> "None", tag |-> NoTag, text |-> <<>>]

-----------------------------------------------------------------------------
(* Visiting, the visit result, and its resolution *)

VisitingEvent(e) == [kind |-> "Event", event |-> e]
NotChanged == [kind |-> "NotChanged", event |-> NoEvent]
Ignore == [kind |-> "Ignore", event |-> NoEvent]
NotVisited == [kind |-> "NotVisited", event |-> NoEvent]

\* resolve with the Ignore arm falling back to the original event.
resolve_IgnoreKeeps(visiting, not_changed) ==
    CASE visiting.kind = "Event" -> <<visiting.event>>
      [] visiting.kind = "NotChanged" -> <<not_changed>>
      [] visiting.kind = "Ignore" -> <<not_changed>>

\* Visiting::resolve: Option<Event> as a sequence of zero or one event.
resolve(visiting, not_changed) ==
    CASE visiting.kind = "Event" -> <<visiting.event>>
      [] visiting.kind = "NotChanged" -> <<not_changed>>
      [] visiting.kind = "Ignore" -> <<>>


-----------------------------------------------------------------------------
(* MarkdownVisitor *)

\* A default method body that drops the event.
DefaultVisit_Ignore == Ignore

\* The trait's default method body, shared by the four operations.
DefaultVisit == NotChanged

\* The events a visitor of the model may supply in Visiting::Event.
Replacements == {Html(<<"<", "a", ">">>)}

\* What operation op of visitor v may return.  "nop" is a visitor that
\* overrides nothing, "suppress" ignores everything, "any" is an arbitrary
\* (possibly stateful) implementation.
VisitorReturns(v, op) ==
    CASE v = "nop" -> {DefaultVisit}
      [] v = "suppress" -> {Ignore}
      [] v = "any" -> {NotChanged, Ignore} \cup {VisitingEvent(e) : e \in Replacements}

Visitors == {"nop", "suppress", "any"}

VisitCall(op, tag, text) == [op |-> op, tag |-> tag, text |-> text]

-----------------------------------------------------------------------------
(* The event streams Parser::new_ext(markdown, Options::all()) yields *)

MaxEvents == 6

Para == Tag("Paragraph")
BlockQuote == Tag("BlockQuote")
Image == Tag("Image")

RenderBlocks ==
    { <<Start(Para), Text(<<"a">>), End(Para)>>,
      <<Start(Para), Code(<<"@", "z">>), End(Para)>>,
      <<Start(BlockQuote), Start(Para), Text(<<"a">>), End(Para), End(BlockQuote)>>,
      <<Start(Para), Text(<<"a">>), SoftBreak, Text(<<"b">>), End(Para)>>,
      <<Start(Para), Text(<<"a">>), HardBreak, Text(<<"b">>), End(Para)>>,
      <<Start(Para), Start(Image), End(Image), End(Para)>>,
      <<Start(Para), FootnoteReference(<<"1">>), End(Para)>>,
      <<Html(<<"<", "hr", ">">>)>>,
      <<Rule>> }

\* The documents made of blocks, of at most n events.
RECURSIVE DocsUpTo(_, _)
DocsUpTo(blocks, n) ==
    {<<>>} \cup UNION { {b \o d : d \in DocsUpTo(blocks, n - Len(b))} :
                          b \in {x \in blocks : Len(x) <= n} }

-----------------------------------------------------------------------------
(* The state of an operation that is not being run *)

NoProbe == [fn |-> "none", tag |-> NoTag, before |-> <<>>, after |-> <<>>]

IdleRender ==
    /\ parsed = <<>>
    /\ visitor = "nop"
    /\ rpos = 0
    /\ forwarded = <<>>
    /\ origin = <<>>
    /\ calls = <<>>
    /\ outcomes = <<>>
    /\ rpc = "done"

IdleStrip ==
    /\ sevents = <<>>
    /\ spos = 0
    /\ buffer = <<>>
    /\ spc = "done"
    /\ probe = NoProbe

IdleExtract ==
    /\ markdown = <<>>
    /\ lines = <<>>
    /\ lpos = 0
    /\ description = <<>>
    /\ source = 0
    /\ raw = <<>>
    /\ epc = "done"

NoDate == [year |-> 0, month |-> 0, day |-> 0]

IdleDate ==
    /\ dinput = [type |-> "none", text |-> <<>>]
    /\ dresult = [status |-> "none", date |-> NoDate]

NoAuthorId == [kind |-> "none", one |-> <<>>, list |-> <<>>]

IdleAuthor ==
    /\ ainput = [type |-> "none", text |-> <<>>, items |-> <<>>]
    /\ apos = 0
    /\ authors = <<>>
    /\ aresult = [status |-> "none", value |-> NoAuthorId]

Invocations == {1, 2}

NoInvocation ==
    [op |-> "none", input |-> <<>>, visitor |-> "nop", count |-> 0,
     pos |-> 0, out |-> <<>>, pc |-> "done"]

IdleConcurrent == inv = [i \in Invocations |-> NoInvocation]

-----------------------------------------------------------------------------
(* markdown_to_html *)

InitRender ==
    /\ parsed \in DocsUpTo(RenderBlocks, MaxEvents)
    /\ visitor \in Visitors
    /\ rpos = 0
    /\ forwarded = <<>>
    /\ origin = <<>>
    /\ calls = <<>>
    /\ outcomes = <<>>
    /\ rpc = "iter"
    /\ IdleStrip
    /\ IdleExtract
    /\ IdleDate
    /\ IdleAuthor
    /\ IdleConcurrent

\* One item leaves the filter_map closure: out is the Option<Event> it
\* returned for the event at rpos + 1, trace the visitor calls it made.
Yield(visiting, out, trace) ==
    /\ rpos' = rpos + 1
    /\ forwarded' = forwarded \o out
    /\ origin' = origin \o [i \in 1..Len(out) |-> rpos + 1]
    /\ calls' = calls \o trace
    /\ outcomes' = Append(outcomes, visiting)
    /\ UNCHANGED <<parsed, visitor, rpc>>
    /\ UNCHANGED <<svars, evars, dvars, avars, cvars>>

Pending == rpc = "iter" /\ rpos < Len(parsed)

\* Event::Start(tag) => v.visit_start_tag(&tag).resolve(|| Event::Start(tag))
VisitStartTag ==
    /\ Pending
    /\ parsed[rpos + 1].kind = "Start"
    /\ \E visiting \in VisitorReturns(visitor, "visit_start_tag") :
         Yield(visiting, resolve(visiting, Start(parsed[rpos + 1].tag)),
               <<VisitCall("visit_start_tag", parsed[rpos + 1].tag, <<>>)>>)

\* visit_end_tag with re-balancing: the End of a tag whose Start was
\* suppressed is dropped whatever the visitor returns.
VisitEndTag_Rebalance ==
    /\ Pending
    /\ parsed[rpos + 1].kind = "End"
    /\ \E visiting \in VisitorReturns(visitor, "visit_end_tag") :
         Yield(visiting,
               IF \E i \in 1..rpos : /\ parsed[i] = Start(parsed[rpos + 1].tag)
                                      /\ outcomes[i] = Ignore
               THEN <<>>
               ELSE resolve(visiting, End(parsed[rpos + 1].tag)),
               <<VisitCall("visit_end_tag", parsed[rpos + 1].tag, <<>>)>>)

\* Event::End(tag) => v.visit_end_tag(&tag).resolve(|| Event::End(tag))
VisitEndTag ==
    /\ Pending
    /\ parsed[rpos + 1].kind = "End"
    /\ \E visiting \in VisitorReturns(visitor, "visit_end_tag") :
         Yield(visiting, resolve(visiting, End(parsed[rpos + 1].tag)),
               <<VisitCall("visit_end_tag", parsed[rpos + 1].tag, <<>>)>>)

\* The Code arm dispatching to visit_text.
VisitCode_AsText ==
    /\ Pending
    /\ parsed[rpos + 1].kind = "Code"
    /\ \E visiting \in VisitorReturns(visitor, "visit_text") :
         Yield(visiting, resolve(visiting, Code(parsed[rpos + 1].text)),
               <<VisitCall("visit_text", NoTag, parsed[rpos + 1].text)>>)

\* Event::Code(code) => v.visit_code(&code).resolve(|| Event::Code(code))
VisitCode ==
    /\ Pending
    /\ parsed[rpos + 1].kind = "Code"
    /\ \E visiting \in VisitorReturns(visitor, "visit_code") :
         Yield(visiting, resolve(visiting, Code(parsed[rpos + 1].text)),
               <<VisitCall("visit_code", NoTag, parsed[rpos + 1].text)>>)

\* Event::Text(text) => v.visit_text(&text).resolve(|| Event::Text(text))
VisitText ==
    /\ Pending
    /\ parsed[rpos + 1].kind = "Text"
    /\ \E visiting \in VisitorReturns(visitor, "visit_text") :
         Yield(visiting, resolve(visiting, Text(parsed[rpos + 1].text)),
               <<VisitCall("visit_text", NoTag, parsed[rpos + 1].text)>>)

\* The catch-all arm consulting the visitor as for a text event.
PassThrough_Visited ==
    /\ Pending
    /\ parsed[rpos + 1].kind \notin {"Start", "End", "Code", "Text"}
    /\ \E visiting \in VisitorReturns(visitor, "visit_text") :
         Yield(visiting, resolve(visiting, parsed[rpos + 1]),
               <<VisitCall("visit_text", NoTag, parsed[rpos + 1].text)>>)

\* _ => Some(event)
PassThrough ==
    /\ Pending
    /\ parsed[rpos + 1].kind \notin {"Start", "End", "Code", "Text"}
    /\ Yield(NotVisited, <<parsed[rpos + 1]>>, <<>>)

\* The iterator is exhausted: push_html returns and html is handed back.
RenderReturn ==
    /\ rpc = "iter"
    /\ rpos = Len(parsed)
    /\ rpc' = "done"
    /\ UNCHANGED <<parsed, visitor, rpos, forwarded, origin, calls, outcomes>>
    /\ UNCHANGED <<svars, evars, dvars, avars, cvars>>

NextRender ==
    \/ VisitStartTag
    \/ VisitEndTag
    \/ VisitCode
    \/ VisitText
    \/ PassThrough
    \/ RenderReturn

SpecRender == InitRender /\ [][NextRender]_vars


-----------------------------------------------------------------------------
(* Properties of markdown_to_html *)

Interceptable(e) == e.kind \in {"Start", "End", "Text", "Code"}

\* What the event at index i contributes to the forwarded stream, read off
\* the outcome recorded for it.
Contribution(i) ==
    CASE outcomes[i].kind = "Event" -> <<outcomes[i].event>>
      [] outcomes[i].kind = "Ignore" -> <<>>
      [] OTHER -> <<parsed[i]>>

RECURSIVE Contributions(_)
Contributions(n) == IF n = 0 THEN <<>> ELSE Contributions(n - 1) \o Contribution(n)

\* C1: the forwarded stream is the in-order concatenation of the per-event
\* resolutions (Event -> the supplied event, NotChanged -> the original
\* event, Ignore -> nothing); so it is no longer than the consumed parse and
\* its events keep the relative order of the parsed events they came from.
C1_ForwardedIsConcatenation ==
    /\ Len(outcomes) = rpos
    /\ forwarded = Contributions(rpos)
    /\ Len(forwarded) <= rpos
    /\ Len(origin) = Len(forwarded)
    /\ \A j \in 1..Len(origin) :
         /\ origin[j] \in 1..rpos
         /\ <<forwarded[j]>> = Contribution(origin[j])
         /\ \A k \in 1..Len(origin) : j < k => origin[j] < origin[k]

C1_Witness ==
    /\ rpc = "done"
    /\ \E i, j, k \in 1..Len(outcomes) :
         /\ outcomes[i].kind = "Event"
         /\ outcomes[j].kind = "NotChanged"
         /\ outcomes[k].kind = "Ignore"
    /\ forwarded # <<>>
    /\ Len(forwarded) < Len(parsed)

NonInterceptable(e) == ~Interceptable(e)

\* C2: an event that is not a StartTag, EndTag, Text or Code event is
\* forwarded unchanged and never passed to the visitor; with a visitor that
\* suppresses every interceptable event the forwarded stream is exactly the
\* subsequence of non-interceptable events of the parse.
C2_PassThroughUnfiltered ==
    /\ \A i \in 1..rpos :
         NonInterceptable(parsed[i]) =>
           /\ outcomes[i] = NotVisited
           /\ \E j \in 1..Len(forwarded) : origin[j] = i /\ forwarded[j] = parsed[i]
    /\ Len(calls) = Cardinality({i \in 1..rpos : Interceptable(parsed[i])})
    /\ visitor = "suppress" =>
         forwarded = SelectSeq(SubSeq(parsed, 1, rpos), NonInterceptable)

C2_Witness ==
    /\ rpc = "done"
    /\ visitor = "suppress"
    /\ \E j \in 1..Len(forwarded) : forwarded[j].kind = "SoftBreak"
    /\ \E j \in 1..Len(forwarded) : forwarded[j].kind = "Html"
    /\ Len(forwarded) < Len(parsed)

\* C3: with a visitor whose operations all return NotChanged (the trait
\* defaults) the forwarded stream is the parse itself, which is what a
\* renderer without interception hands to the serializer.
C3_NopVisitorIsBaseline ==
    visitor = "nop" =>
      /\ forwarded = SubSeq(parsed, 1, rpos)
      /\ rpc = "done" => forwarded = parsed

C3_Witness ==
    /\ rpc = "done"
    /\ visitor = "nop"
    /\ \E i \in 1..Len(parsed) : parsed[i].kind = "Code"
    /\ \E i \in 1..Len(parsed) : parsed[i].kind = "Rule"
    /\ Len(calls) >= 3

\* C4: an Ignore outcome removes exactly its own event and nothing else: the
\* step that ignores an event leaves the forwarded stream as it was, and
\* every event whose own outcome is not Ignore has exactly one forwarded
\* event, whatever happened to its Start/End partner (no re-balancing).
C4_IgnoreRemovesOnlyItsEvent ==
    /\ [](\A i \in 1..rpos :
            Cardinality({j \in 1..Len(origin) : origin[j] = i})
              = IF outcomes[i] = Ignore THEN 0 ELSE 1)
    /\ [][rpos' = rpos + 1 =>
            /\ SubSeq(forwarded', 1, Len(forwarded)) = forwarded
            /\ SubSeq(outcomes', 1, rpos) = outcomes
            /\ outcomes'[rpos'] = Ignore => forwarded' = forwarded
            /\ outcomes'[rpos'] = NotChanged =>
                 forwarded' = Append(forwarded, parsed[rpos'])]_vars

C4_Witness ==
    /\ rpc = "done"
    /\ \E i, k \in 1..Len(parsed) :
         /\ i < k
         /\ parsed[i] = Start(BlockQuote)
         /\ parsed[k] = End(BlockQuote)
         /\ outcomes[i] = Ignore
         /\ outcomes[k] = NotChanged
         /\ \E j \in 1..Len(forwarded) : origin[j] = k /\ forwarded[j] = End(BlockQuote)
         /\ \A j \in 1..Len(forwarded) : forwarded[j] # Start(BlockQuote)

\* The visitor call the event e is entitled to.
ExpectedCall(e) ==
    CASE e.kind = "Start" -> <<VisitCall("visit_start_tag", e.tag, <<>>)>>
      [] e.kind = "End" -> <<VisitCall("visit_end_tag", e.tag, <<>>)>>
      [] e.kind = "Text" -> <<VisitCall("visit_text", NoTag, e.text)>>
      [] e.kind = "Code" -> <<VisitCall("visit_code", NoTag, e.text)>>
      [] OTHER -> <<>>

RECURSIVE ExpectedCalls(_)
ExpectedCalls(n) ==
    IF n = 0 THEN <<>> ELSE ExpectedCalls(n - 1) \o ExpectedCall(parsed[n])

\* C5: the visitor is invoked exactly once for each StartTag, EndTag, Text
\* and Code event, in parse order, with the operation matching the event
\* kind, whatever it returned for earlier events.
C5_VisitedOncePerEvent ==
    /\ calls = ExpectedCalls(rpos)
    /\ rpc = "done" => calls = ExpectedCalls(Len(parsed))

C5_Witness ==
    /\ rpc = "done"
    /\ Len(calls) >= 5
    /\ outcomes[1] = Ignore
    /\ \E i \in 2..Len(outcomes) : outcomes[i].kind = "Event"
    /\ \E i \in 1..Len(calls) : calls[i].op = "visit_code"
    /\ calls[Len(calls)].op = "visit_end_tag"


-----------------------------------------------------------------------------
(* strip_markdown: the per-event rules *)

\* fresh_line that adds no break to a buffer already ending with one.
fresh_line_Dedup(buf) ==
    IF buf # <<>> /\ buf[Len(buf)] = LF THEN buf ELSE Append(buf, LF)

fresh_line(buf) == Append(buf, LF)

\* start_tag without the List arm.
start_tag_NoList(tag, buf) ==
    CASE tag.name = "CodeBlock" -> fresh_line(buf)
      [] tag.name = "Link" -> IF tag.title # <<>> THEN buf \o tag.title ELSE buf
      [] OTHER -> buf

start_tag(tag, buf) ==
    CASE tag.name \in {"CodeBlock", "List"} -> fresh_line(buf)
      [] tag.name = "Link" -> IF tag.title # <<>> THEN buf \o tag.title ELSE buf
      [] OTHER -> buf

end_tag(tag, buf) ==
    IF tag.name \in {"Table", "TableHead", "TableRow", "Heading", "BlockQuote",
                     "CodeBlock", "Item"}
    THEN fresh_line(buf)
    ELSE buf

\* The body of the for loop: the match on one event.
StripEvent(event, buf) ==
    CASE event.kind = "Start" -> start_tag(event.tag, buf)
      [] event.kind = "End" -> end_tag(event.tag, buf)
      [] event.kind = "Text" -> buf \o event.text
      [] event.kind = "Code" -> buf \o event.text
      [] event.kind \in {"SoftBreak", "HardBreak", "Rule"} -> fresh_line(buf)
      [] OTHER -> buf

\* strip_markdown on the event stream of its parser.
RECURSIVE StripEvents(_, _)
StripEvents(events, buf) ==
    IF events = <<>> THEN buf
    ELSE StripEvents(Tail(events), StripEvent(Head(events), buf))

-----------------------------------------------------------------------------
(* The event streams Parser::new_ext(markdown, ENABLE_STRIKETHROUGH) yields *)

MaxStripEvents == 7

Heading == Tag("Heading")
CodeBlock == Tag("CodeBlock")
List == Tag("List")
Item == Tag("Item")
Strong == Tag("Strong")
Strikethrough == Tag("Strikethrough")

StripBlocks ==
    { <<Start(Para), Text(<<"a">>), End(Para)>>,
      <<Start(Para), Code(<<"c">>), End(Para)>>,
      <<Start(Heading), Text(<<"h">>), End(Heading)>>,
      <<Start(Para), Start(Strong), Text(<<"a">>), End(Strong), End(Para)>>,
      <<Start(Para), Start(Strikethrough), Text(<<"a">>), End(Strikethrough), End(Para)>>,
      <<Start(Para), Start(LinkTag(<<"t">>)), Text(<<"a">>), End(LinkTag(<<"t">>)), End(Para)>>,
      <<Start(Para), Start(LinkTag(<<>>)), Text(<<"a">>), End(LinkTag(<<>>)), End(Para)>>,
      <<Start(Para), Start(Image), Text(<<"i">>), End(Image), End(Para)>>,
      <<Start(Para), Text(<<"a">>), SoftBreak, Text(<<"b">>), End(Para)>>,
      <<Start(Para), Text(<<"a">>), HardBreak, Text(<<"b">>), End(Para)>>,
      <<Start(BlockQuote), Start(Para), Text(<<"q">>), End(Para), End(BlockQuote)>>,
      <<Start(CodeBlock), Text(<<"x", LF>>), End(CodeBlock)>>,
      <<Start(List), Start(Item), Text(<<"a">>), End(Item), End(List)>>,
      <<Start(List), Start(Item), End(Item), End(List)>>,
      <<Html(<<"<", "hr", ">">>)>>,
      <<Rule>> }

\* Every tag start_tag and end_tag can be handed.
AllTags ==
    {Tag(n) : n \in {"Paragraph", "Heading", "BlockQuote", "CodeBlock", "List", "Item",
                     "FootnoteDefinition", "Table", "TableHead", "TableRow",
                     "TableCell", "Emphasis", "Strong", "Strikethrough", "Image"}}
      \cup {LinkTag(<<>>), LinkTag(<<"t">>)}

-----------------------------------------------------------------------------
(* strip_markdown: the loop *)

InitStrip ==
    /\ sevents \in DocsUpTo(StripBlocks, MaxStripEvents)
    /\ spos = 0
    /\ buffer = <<>>
    /\ spc = "iter"
    /\ probe = NoProbe
    /\ IdleRender
    /\ IdleExtract
    /\ IdleDate
    /\ IdleAuthor
    /\ IdleConcurrent

StripPending == spc = "iter" /\ spos < Len(sevents)

StripAdvance(buf) ==
    /\ spos' = spos + 1
    /\ buffer' = buf
    /\ UNCHANGED <<sevents, spc, probe>>
    /\ UNCHANGED <<rvars, evars, dvars, avars, cvars>>

\* Start(tag) => start_tag(&tag, &mut buffer)
StripStart ==
    /\ StripPending
    /\ sevents[spos + 1].kind = "Start"
    /\ StripAdvance(start_tag(sevents[spos + 1].tag, buffer))

\* End(tag) => end_tag(&tag, &mut buffer)
StripEnd ==
    /\ StripPending
    /\ sevents[spos + 1].kind = "End"
    /\ StripAdvance(end_tag(sevents[spos + 1].tag, buffer))

\* Text(text) => buffer.push_str(&text)
StripText ==
    /\ StripPending
    /\ sevents[spos + 1].kind = "Text"
    /\ StripAdvance(buffer \o sevents[spos + 1].text)

\* Code(code) => buffer.push_str(&code)
StripCode ==
    /\ StripPending
    /\ sevents[spos + 1].kind = "Code"
    /\ StripAdvance(buffer \o sevents[spos + 1].text)

\* SoftBreak | HardBreak | Rule => fresh_line(&mut buffer)
StripBreak ==
    /\ StripPending
    /\ sevents[spos + 1].kind \in {"SoftBreak", "HardBreak", "Rule"}
    /\ StripAdvance(fresh_line(buffer))

\* _ => ()
StripOther ==
    /\ StripPending
    /\ sevents[spos + 1].kind \notin
         {"Start", "End", "Text", "Code", "SoftBreak", "HardBreak", "Rule"}
    /\ StripAdvance(buffer)

\* The parser is exhausted: buffer is returned.
StripReturn ==
    /\ spc = "iter"
    /\ spos = Len(sevents)
    /\ spc' = "done"
    /\ UNCHANGED <<sevents, spos, buffer, probe>>
    /\ UNCHANGED <<rvars, evars, dvars, avars, cvars>>

\* start_tag applied once to any tag and the current buffer (the loop is
\* left alone).
ApplyStartTag ==
    /\ probe = NoProbe
    /\ \E tag \in AllTags :
         probe' = [fn |-> "start_tag", tag |-> tag, before |-> buffer,
                   after |-> start_tag(tag, buffer)]
    /\ UNCHANGED <<sevents, spos, buffer, spc>>
    /\ UNCHANGED <<rvars, evars, dvars, avars, cvars>>

\* end_tag applied once to any tag and the current buffer (the loop is left
\* alone).
ApplyEndTag ==
    /\ probe = NoProbe
    /\ \E tag \in AllTags :
         probe' = [fn |-> "end_tag", tag |-> tag, before |-> buffer,
                   after |-> end_tag(tag, buffer)]
    /\ UNCHANGED <<sevents, spos, buffer, spc>>
    /\ UNCHANGED <<rvars, evars, dvars, avars, cvars>>

NextStrip ==
    \/ StripStart
    \/ StripEnd
    \/ StripText
    \/ StripCode
    \/ StripBreak
    \/ StripOther
    \/ StripReturn
    \/ ApplyStartTag
    \/ ApplyEndTag

SpecStrip == InitStrip /\ [][NextStrip]_vars

-----------------------------------------------------------------------------
(* Properties of strip_markdown *)

\* What one event adds to the buffer, as the rule table states it.
C9_Added(e) ==
    CASE e.kind = "Start" /\ e.tag.name \in {"CodeBlock", "List"} -> <<LF>>
      [] e.kind = "Start" /\ e.tag.name = "Link" -> e.tag.title
      [] e.kind = "End" /\ e.tag.name \in {"Table", "TableHead", "TableRow", "Heading",
                                           "BlockQuote", "CodeBlock", "Item"} -> <<LF>>
      [] e.kind \in {"Text", "Code"} -> e.text
      [] e.kind \in {"SoftBreak", "HardBreak", "Rule"} -> <<LF>>
      [] OTHER -> <<>>

RECURSIVE C9_AddedUpTo(_)
C9_AddedUpTo(n) == IF n = 0 THEN <<>> ELSE C9_AddedUpTo(n - 1) \o C9_Added(sevents[n])

\* C9: the buffer is the in-order concatenation of a contribution that
\* depends only on the event: a line break for Start(CodeBlock), Start(List),
\* End of Table, TableHead, TableRow, Heading, BlockQuote, CodeBlock and Item,
\* and for SoftBreak, HardBreak and Rule; the title for Start(Link); the text
\* for Text and Code; nothing for any other event.
C9_BufferIsConcatenation ==
    /\ buffer = C9_AddedUpTo(spos)
    /\ probe.fn = "start_tag" => probe.after = probe.before \o C9_Added(Start(probe.tag))
    /\ probe.fn = "end_tag" => probe.after = probe.before \o C9_Added(End(probe.tag))

C9_Witness ==
    /\ spc = "done"
    /\ probe.fn = "end_tag"
    /\ probe.tag = Tag("TableRow")
    /\ \E i \in 1..Len(sevents) : sevents[i] = Start(LinkTag(<<"t">>))
    /\ \E i \in 1..Len(sevents) : sevents[i] = Rule
    /\ buffer = <<"t", "a", LF>>


\* The events the boundary rules answer with a line break.
C13_Boundary(e) ==
    \/ e.kind = "Start" /\ e.tag.name \in {"CodeBlock", "List"}
    \/ e.kind = "End" /\ e.tag.name \in {"Table", "TableHead", "TableRow", "Heading",
                                         "BlockQuote", "CodeBlock", "Item"}
    \/ e.kind \in {"SoftBreak", "HardBreak", "Rule"}

C13_Breaks(s) == Cardinality({i \in 1..Len(s) : s[i] = LF})

\* The line breaks that events 1..n carry in their own text or title.
RECURSIVE C13_OwnBreaks(_)
C13_OwnBreaks(n) ==
    IF n = 0 THEN 0
    ELSE C13_OwnBreaks(n - 1)
           + C13_Breaks(sevents[n].text)
           + (IF sevents[n].kind = "Start" THEN C13_Breaks(sevents[n].tag.title) ELSE 0)

\* C13: the buffer is append-only and line breaks are never deduplicated:
\* each event leaves the old buffer as a prefix of the new one, a boundary
\* event appends one line break whatever the buffer ends with, the breaks
\* appended by boundary rules number the boundary events processed, and
\* returning leaves the buffer untrimmed.
C13_AppendOnlyNoDedup ==
    /\ [](C13_Breaks(buffer) - C13_OwnBreaks(spos)
            = Cardinality({i \in 1..spos : C13_Boundary(sevents[i])}))
    /\ [][/\ spos' = spos + 1 =>
               /\ Len(buffer') >= Len(buffer)
               /\ SubSeq(buffer', 1, Len(buffer)) = buffer
               /\ C13_Boundary(sevents[spos']) => buffer' = Append(buffer, LF)
          /\ spos' = spos => buffer' = buffer]_vars

C13_Witness ==
    /\ spc = "done"
    /\ sevents = <<Start(Heading), Text(<<"h">>), End(Heading),
                   Start(List), Start(Item), End(Item), End(List)>>
    /\ buffer = <<"h", LF, LF, LF>>

-----------------------------------------------------------------------------
(* String operations of extract_description *)

CR == "\r"
TAB == "\t"
Whitespace == {SP, TAB, CR}

MinOf(S) == CHOOSE x \in S : \A y \in S : x <= y

\* str::lines: the segments between line feeds, without the carriage return
\* of a "\r\n" terminator; a final line feed opens no further line.
RECURSIVE LinesFrom(_, _)
LinesFrom(s, start) ==
    IF start > Len(s) THEN <<>>
    ELSE LET feeds == {i \in start..Len(s) : s[i] = LF}
         IN  IF feeds = {} THEN <<SubSeq(s, start, Len(s))>>
             ELSE LET e == MinOf(feeds)
                      last == IF e > start /\ s[e - 1] = CR THEN e - 2 ELSE e - 1
                  IN  <<SubSeq(s, start, last)>> \o LinesFrom(s, e + 1)

str_lines(s) == LinesFrom(s, 1)

\* str::trim_start and str::trim_end
RECURSIVE trim_start(_)
trim_start(s) ==
    IF s # <<>> /\ Head(s) \in Whitespace THEN trim_start(Tail(s)) ELSE s

RECURSIVE trim_end(_)
trim_end(s) ==
    IF s # <<>> /\ s[Len(s)] \in Whitespace
    THEN trim_end(SubSeq(s, 1, Len(s) - 1))
    ELSE s

\* str::trim
trim(s) == trim_end(trim_start(s))

\* str::starts_with(&[..]) for a set of characters
starts_with(s, chars) == s # <<>> /\ s[1] \in chars

\* Iterator::take with one element too many.
take_OneMore(s, n) == SubSeq(s, 1, IF Len(s) < n + 1 THEN Len(s) ELSE n + 1)

\* chars().take(n).collect::<String>()
take(s, n) == SubSeq(s, 1, IF Len(s) < n THEN Len(s) ELSE n)

\* str::replace for a one-character pattern
replace(s, from, to) == [i \in 1..Len(s) |-> IF s[i] = from THEN to ELSE s[i]]

MaxDescription == 200

-----------------------------------------------------------------------------
(* The parser on one trimmed line, for the line shapes of ExtractLines *)

PlainChars == {"a", "b", DQ, SP}

IsPlain(s) ==
    /\ s # <<>>
    /\ \A i \in 1..Len(s) : s[i] \in PlainChars
    /\ s[1] # SP
    /\ s[Len(s)] # SP

Inner(s, lead, trail) == SubSeq(s, lead + 1, Len(s) - trail)

Wrapped(s, open, close) ==
    /\ Len(s) >= Len(open) + Len(close)
    /\ SubSeq(s, 1, Len(open)) = open
    /\ SubSeq(s, Len(s) - Len(close) + 1, Len(s)) = close

ImageOpen == <<"!", "[">>
ImageClose == <<"]", "(", "i", ")">>
StrongMark == <<"*", "*">>
\* The backquote, which a TLA+ string cannot hold, is written as its name.
BT == "backquote"

Parse(line) ==
    CASE line = <<>> -> <<>>
      [] line = <<"-">> ->
           <<Start(List), Start(Item), End(Item), End(List)>>
      [] Len(line) >= 3 /\ \A i \in 1..Len(line) : line[i] = "-" ->
           <<Rule>>
      [] line = <<BT, BT, BT>> ->
           <<Start(CodeBlock), End(CodeBlock)>>
      [] line = <<">">> ->
           <<Start(BlockQuote), End(BlockQuote)>>
      [] Wrapped(line, <<"#", SP>>, <<>>) /\ IsPlain(Inner(line, 2, 0)) ->
           <<Start(Heading), Text(Inner(line, 2, 0)), End(Heading)>>
      [] Wrapped(line, ImageOpen, ImageClose) /\ IsPlain(Inner(line, 2, 4)) ->
           <<Start(Para), Start(Image), Text(Inner(line, 2, 4)), End(Image), End(Para)>>
      [] Wrapped(line, StrongMark, StrongMark) /\ IsPlain(Inner(line, 2, 2)) ->
           <<Start(Para), Start(Strong), Text(Inner(line, 2, 2)), End(Strong), End(Para)>>
      [] OTHER ->
           <<Start(Para), Text(line), End(Para)>>

\* strip_markdown as a function of the text
strip_markdown(md) == StripEvents(Parse(md), <<>>)

-----------------------------------------------------------------------------
(* The inputs of extract_description *)

MaxLines == 3

Repeat(c, n) == [i \in 1..n |-> c]

ExtractLines ==
    { <<>>,
      <<SP, TAB>>,
      <<SP, "#", SP, "a">>,
      <<"!", "[", "b", "]", "(", "i", ")">>,
      <<"-">>,
      <<"-", "-", "-">>,
      <<BT, BT, BT>>,
      <<">">>,
      <<"b", CR>>,
      <<SP, "a", SP, DQ, "a", DQ, SP>>,
      <<"*", "*", "b", "*", "*">>,
      Repeat("a", MaxDescription - 1) \o <<DQ>>,
      <<DQ>> \o Repeat("a", MaxDescription - 2) \o <<DQ, "b">> }

\* The texts of at most n lines, each line but the last ended by a line feed.
RECURSIVE TextsUpTo(_)
TextsUpTo(n) ==
    IF n = 0 THEN {<<>>}
    ELSE {<<>>} \cup ExtractLines
           \cup {l \o <<LF>> \o t : l \in ExtractLines, t \in TextsUpTo(n - 1)}

-----------------------------------------------------------------------------
(* extract_description *)

InitExtract ==
    /\ markdown \in TextsUpTo(MaxLines)
    /\ lines = str_lines(markdown)
    /\ lpos = 0
    /\ description = <<>>
    /\ source = 0
    /\ raw = <<>>
    /\ epc = "scan"
    /\ IdleRender
    /\ IdleStrip
    /\ IdleDate
    /\ IdleAuthor
    /\ IdleConcurrent

Scanning == epc = "scan" /\ lpos < Len(lines)

\* let line = line.trim();
Candidate == trim(lines[lpos + 1])

\* The skip test without the image marker.
Skipped_HeadingOnly(line) == line = <<>> \/ starts_with(line, {"#"})

\* line.is_empty() || line.starts_with(&['#', '!'])
Skipped(line) == line = <<>> \/ starts_with(line, {"#", "!"})

\* raw == "\n" || raw.is_empty()
Blank(r) == r = <<LF>> \/ r = <<>>

\* The closure returns None for a heading, image or empty line.
ScanSkip ==
    /\ Scanning
    /\ Skipped(Candidate)
    /\ lpos' = lpos + 1
    /\ UNCHANGED <<markdown, lines, description, source, raw, epc>>
    /\ UNCHANGED <<rvars, svars, dvars, avars, cvars>>

\* The closure returns None for a line that strips to nothing.
ScanBlank ==
    /\ Scanning
    /\ ~Skipped(Candidate)
    /\ Blank(strip_markdown(Candidate))
    /\ lpos' = lpos + 1
    /\ UNCHANGED <<markdown, lines, description, source, raw, epc>>
    /\ UNCHANGED <<rvars, svars, dvars, avars, cvars>>

\* The closure returns Some(..): find_map stops and the value is returned.
ScanFound ==
    /\ Scanning
    /\ ~Skipped(Candidate)
    /\ ~Blank(strip_markdown(Candidate))
    /\ lpos' = lpos + 1
    /\ raw' = strip_markdown(Candidate)
    /\ source' = lpos + 1
    /\ description' = replace(take(strip_markdown(Candidate), MaxDescription), DQ, SQ)
    /\ epc' = "done"
    /\ UNCHANGED <<markdown, lines>>
    /\ UNCHANGED <<rvars, svars, dvars, avars, cvars>>

\* find_map returns None: unwrap_or_default gives the empty string.
ScanExhausted ==
    /\ epc = "scan"
    /\ lpos = Len(lines)
    /\ description' = <<>>
    /\ epc' = "done"
    /\ UNCHANGED <<markdown, lines, lpos, source, raw>>
    /\ UNCHANGED <<rvars, svars, dvars, avars, cvars>>

NextExtract ==
    \/ ScanSkip
    \/ ScanBlank
    \/ ScanFound
    \/ ScanExhausted

SpecExtract == InitExtract /\ [][NextExtract]_vars


-----------------------------------------------------------------------------
(* Properties of extract_description *)

\* C6: the description has at most 200 characters and no double quote; when
\* the stripped candidate line has more than 200 characters it is exactly
\* the first 200 of them with each double quote replaced by a single quote.
C6_BoundedAndSanitized ==
    /\ Len(description) <= MaxDescription
    /\ \A i \in 1..Len(description) : description[i] # DQ
    /\ (source # 0 /\ Len(raw) > MaxDescription) =>
         /\ Len(description) = MaxDescription
         /\ \A i \in 1..MaxDescription :
              description[i] = IF raw[i] = DQ THEN SQ ELSE raw[i]

C6_Witness ==
    /\ epc = "done"
    /\ source # 0
    /\ Len(raw) = MaxDescription + 1
    /\ raw[1] = DQ
    /\ raw[MaxDescription] = DQ
    /\ description[1] = SQ
    /\ description[MaxDescription] = SQ

\* A line qualifies when, trimmed, it is not empty, starts with neither '#'
\* nor '!', and strips to more than nothing or a lone line feed.
C7_Qualifies(l) ==
    /\ trim(l) # <<>>
    /\ trim(l)[1] \notin {"#", "!"}
    /\ strip_markdown(trim(l)) \notin {<<>>, <<LF>>}

C7_Sanitized(s) ==
    [i \in 1..(IF Len(s) < MaxDescription THEN Len(s) ELSE MaxDescription) |->
       IF s[i] = DQ THEN SQ ELSE s[i]]

\* C7: the result is the sanitized strip of the first line that qualifies;
\* scanning stops there, so no later line is consumed; no line starting with
\* '#' or '!' is the source of the result; and the result is empty when no
\* line qualifies.
C7_FirstQualifyingLine ==
    LET qualifying == {k \in 1..Len(lines) : C7_Qualifies(lines[k])}
    IN  /\ epc = "scan" =>
             /\ \A k \in 1..lpos : k \notin qualifying
             /\ source = 0
        /\ (epc = "done" /\ qualifying = {}) =>
             /\ source = 0
             /\ description = <<>>
        /\ (epc = "done" /\ qualifying # {}) =>
             /\ source = MinOf(qualifying)
             /\ lpos = source
             /\ description = C7_Sanitized(strip_markdown(trim(lines[source])))
        /\ source # 0 => trim(lines[source])[1] \notin {"#", "!"}

C7_Witness ==
    /\ epc = "done"
    /\ Len(lines) = 3
    /\ starts_with(trim(lines[1]), {"!"})
    /\ strip_markdown(trim(lines[1])) = <<"b">>
    /\ source = 2
    /\ lpos = 2
    /\ C7_Qualifies(lines[3])
    /\ lines[3] # lines[2]
    /\ description = <<"a", SP, SQ, "a", SQ>>

\* C8: a candidate whose strip is empty or a lone line feed is not taken,
\* and so a description that is not empty holds a character that is no
\* line feed.
C8_NoBlankDescription ==
    /\ source # 0 => raw \notin {<<>>, <<LF>>}
    /\ description # <<>> => \E i \in 1..Len(description) : description[i] # LF


-----------------------------------------------------------------------------
(* serde_date: Date::parse(v, "[year]-[month]-[day]") *)

Digits == <<"0", "1", "2", "3", "4", "5", "6", "7", "8", "9">>

IsDigit(c) == \E d \in 1..Len(Digits) : Digits[d] = c

DigitValue(c) == (CHOOSE d \in 1..Len(Digits) : Digits[d] = c) - 1

RECURSIVE Number(_)
Number(s) ==
    IF s = <<>> THEN 0
    ELSE Number(SubSeq(s, 1, Len(s) - 1)) * 10 + DigitValue(s[Len(s)])

IsLeapYear(y) == y % 4 = 0 /\ (y % 100 # 0 \/ y % 400 = 0)

DaysInMonth(y, m) ==
    CASE m \in {4, 6, 9, 11} -> 30
      [] m = 2 -> IF IsLeapYear(y) THEN 29 ELSE 28
      [] OTHER -> 31

\* The text has the shape of the format description: four digits, "-", two
\* digits, "-", two digits, and nothing after them.
HasDateShape(v) ==
    /\ Len(v) = 10
    /\ v[5] = "-"
    /\ v[8] = "-"
    /\ \A i \in {1, 2, 3, 4, 6, 7, 9, 10} : IsDigit(v[i])

\* Whether Date::parse returns Ok.
ParsesAsDate(v) ==
    /\ HasDateShape(v)
    /\ Number(SubSeq(v, 6, 7)) \in 1..12
    /\ Number(SubSeq(v, 9, 10)) \in
         1..DaysInMonth(Number(SubSeq(v, 1, 4)), Number(SubSeq(v, 6, 7)))

ParsedDate(v) ==
    [year |-> Number(SubSeq(v, 1, 4)),
     month |-> Number(SubSeq(v, 6, 7)),
     day |-> Number(SubSeq(v, 9, 10))]

-----------------------------------------------------------------------------
(* The values handed to serde_date::deserialize *)

YearTexts == {<<"2", "0", "2", "2">>, <<"2", "0", "2", "4">>, <<"1", "9", "0", "0">>}
MonthTexts == {<<"0", "0">>, <<"0", "1">>, <<"0", "2">>, <<"0", "4">>, <<"1", "2">>,
               <<"1", "3">>}
DayTexts == {<<"0", "0">>, <<"0", "1">>, <<"2", "8">>, <<"2", "9">>, <<"3", "0">>,
             <<"3", "1">>, <<"3", "2">>}
Separators == {"-", "/"}

DateTexts ==
    {y \o <<sep>> \o m \o <<sep>> \o d :
       y \in YearTexts, sep \in Separators, m \in MonthTexts, d \in DayTexts}
      \cup {y \o <<"-">> \o m : y \in YearTexts, m \in MonthTexts}
      \cup {<<>>}

DateInputs ==
    {[type |-> "str", text |-> v] : v \in DateTexts}
      \cup {[type |-> t, text |-> <<>>] : t \in {"i64", "bool", "map"}}

-----------------------------------------------------------------------------
(* serde_date::deserialize *)

InitDate ==
    /\ dinput \in DateInputs
    /\ dresult = [status |-> "pending", date |-> NoDate]
    /\ IdleRender
    /\ IdleStrip
    /\ IdleExtract
    /\ IdleAuthor
    /\ IdleConcurrent

\* deserialize_any hands a string to visit_str, which parses it: Ok(date).
VisitStrOk ==
    /\ dresult.status = "pending"
    /\ dinput.type = "str"
    /\ ParsesAsDate(dinput.text)
    /\ dresult' = [status |-> "ok", date |-> ParsedDate(dinput.text)]
    /\ UNCHANGED <<dinput, rvars, svars, evars, avars, cvars>>

\* Date::parse fails: unwrap_or_else(|_| panic!(..)).
VisitStrPanic ==
    /\ dresult.status = "pending"
    /\ dinput.type = "str"
    /\ ~ParsesAsDate(dinput.text)
    /\ dresult' = [status |-> "panic", date |-> NoDate]
    /\ UNCHANGED <<dinput, rvars, svars, evars, avars, cvars>>

\* deserialize_any hands over a value DateVisitor has no method for: the
\* Visitor default returns Err(invalid type, expecting "a date value ...").
VisitOther ==
    /\ dresult.status = "pending"
    /\ dinput.type \notin {"str", "none"}
    /\ dresult' = [status |-> "err", date |-> NoDate]
    /\ UNCHANGED <<dinput, rvars, svars, evars, avars, cvars>>

NextDate ==
    \/ VisitStrOk
    \/ VisitStrPanic
    \/ VisitOther

SpecDate == InitDate /\ [][NextDate]_vars

-----------------------------------------------------------------------------
(* Properties of serde_date::deserialize *)

\* C10: deserializing a date from an invalid date string returns an error
\* value to the caller and never panics.
C10_InvalidDateIsError ==
    /\ dresult.status # "panic"
    /\ (dinput.type = "str" /\ ~ParsesAsDate(dinput.text)
          /\ dresult.status # "pending") => dresult.status = "err"


-----------------------------------------------------------------------------
(* AuthorId: Deserialize through AuthorNameVisitor *)

MaxAuthors == 3

\* Author names; "a" and "A" differ, as String equality is exact.
AuthorNames == {<<"a">>, <<"A">>, <<"b">>}

RECURSIVE NameSeqsUpTo(_)
NameSeqsUpTo(n) ==
    IF n = 0 THEN {<<>>}
    ELSE {<<>>} \cup {<<a>> \o t : a \in AuthorNames, t \in NameSeqsUpTo(n - 1)}

AuthorInputs ==
    {[type |-> "str", text |-> a, items |-> <<>>] : a \in AuthorNames}
      \cup {[type |-> "seq", text |-> <<>>, items |-> t] : t \in NameSeqsUpTo(MaxAuthors)}

AuthorOne(a) == [kind |-> "One", one |-> a, list |-> <<>>]
AuthorList(l) == [kind |-> "List", one |-> <<>>, list |-> l]

\* A membership test that looks at the last element only.
contains_LastOnly(v, x) == v # <<>> /\ v[Len(v)] = x

\* Vec::contains
contains(v, x) == \E i \in 1..Len(v) : v[i] = x

InitAuthor ==
    /\ ainput \in AuthorInputs
    /\ apos = 0
    /\ authors = <<>>
    /\ aresult = [status |-> "pending", value |-> NoAuthorId]
    /\ IdleRender
    /\ IdleStrip
    /\ IdleExtract
    /\ IdleDate
    /\ IdleConcurrent

\* visit_str: Ok(AuthorId::One(v.to_string()))
AuthorVisitStr ==
    /\ aresult.status = "pending"
    /\ ainput.type = "str"
    /\ aresult' = [status |-> "ok", value |-> AuthorOne(ainput.text)]
    /\ UNCHANGED <<ainput, apos, authors>>
    /\ UNCHANGED <<rvars, svars, evars, dvars, cvars>>

SeqPending ==
    /\ aresult.status = "pending"
    /\ ainput.type = "seq"
    /\ apos < Len(ainput.items)

\* while let Some(author) = seq.next_element()?: a new name is pushed.
AuthorSeqPush ==
    /\ SeqPending
    /\ ~contains(authors, ainput.items[apos + 1])
    /\ authors' = Append(authors, ainput.items[apos + 1])
    /\ apos' = apos + 1
    /\ UNCHANGED <<ainput, aresult>>
    /\ UNCHANGED <<rvars, svars, evars, dvars, cvars>>

\* while let Some(author) = seq.next_element()?: a name already held is dropped.
AuthorSeqSkip ==
    /\ SeqPending
    /\ contains(authors, ainput.items[apos + 1])
    /\ apos' = apos + 1
    /\ UNCHANGED <<ainput, authors, aresult>>
    /\ UNCHANGED <<rvars, svars, evars, dvars, cvars>>

\* next_element returns None: Ok(AuthorId::List(authors))
AuthorSeqEnd ==
    /\ aresult.status = "pending"
    /\ ainput.type = "seq"
    /\ apos = Len(ainput.items)
    /\ aresult' = [status |-> "ok", value |-> AuthorList(authors)]
    /\ UNCHANGED <<ainput, apos, authors>>
    /\ UNCHANGED <<rvars, svars, evars, dvars, cvars>>

NextAuthor ==
    \/ AuthorVisitStr
    \/ AuthorSeqPush
    \/ AuthorSeqSkip
    \/ AuthorSeqEnd

SpecAuthor == InitAuthor /\ [][NextAuthor]_vars

-----------------------------------------------------------------------------
(* Properties of AuthorId deserialization *)

\* The index at which the name x first occurs in s.
C12_FirstAt(s, x) == MinOf({i \in 1..Len(s) : s[i] = x})

\* C12: a sequence of names deserializes to a List holding each distinct
\* name exactly once, in order of first occurrence (an empty sequence to an
\* empty List); a plain string deserializes to One with that string.
C12_DistinctInFirstOccurrenceOrder ==
    aresult.status = "ok" =>
      /\ ainput.type = "str" => aresult.value = AuthorOne(ainput.text)
      /\ ainput.type = "seq" =>
           LET l == aresult.value.list
           IN  /\ aresult.value.kind = "List"
               /\ {l[j] : j \in 1..Len(l)} = {ainput.items[i] : i \in 1..Len(ainput.items)}
               /\ \A j, k \in 1..Len(l) : j # k => l[j] # l[k]
               /\ \A j, k \in 1..Len(l) :
                    j < k => C12_FirstAt(ainput.items, l[j]) < C12_FirstAt(ainput.items, l[k])

C12_Witness ==
    /\ aresult.status = "ok"
    /\ ainput.type = "seq"
    /\ ainput.items = <<<<"a">>, <<"b">>, <<"a">>>>
    /\ aresult.value = AuthorList(<<<<"a">>, <<"b">>>>)

-----------------------------------------------------------------------------
(* Two invocations of the core at once, as the worker pool runs them: each
   owns its input, its visitor and its locals (events, buffer, html), and
   their per-event and per-line steps interleave in any order. *)

MaxConcEvents == 3

\* A visitor with state of its own: it counts its calls, ignores the first
\* of every three, replaces the second, and leaves the third unchanged.
CountingVisit(count) ==
    CASE count % 3 = 0 -> Ignore
      [] count % 3 = 1 -> VisitingEvent(Html(<<"<", "a", ">">>))
      [] OTHER -> NotChanged

VisitOf(v, count) == IF v = "counting" THEN CountingVisit(count) ELSE DefaultVisit

\* The filter_map closure on one event, given the visitor and its state:
\* what is forwarded.
RenderEvent(e, v, count) ==
    IF e.kind \in {"Start", "End", "Code", "Text"}
    THEN resolve(VisitOf(v, count), e)
    ELSE <<e>>

VisitsOf(e) == IF e.kind \in {"Start", "End", "Code", "Text"} THEN 1 ELSE 0

\* The find_map closure on one line: Some(description) as a one-element
\* sequence, None as the empty one.
ExtractLine(l) ==
    IF Skipped(trim(l)) \/ Blank(strip_markdown(trim(l)))
    THEN <<>>
    ELSE <<replace(take(strip_markdown(trim(l)), MaxDescription), DQ, SQ)>>

ConcTexts ==
    { <<>>,
      <<SP, "#", SP, "a", LF, "a", SP, DQ, "a", DQ>>,
      <<"-", "-", "-", LF, "*", "*", "b", "*", "*", LF, "a">>,
      <<"!", "[", "b", "]", "(", "i", ")", LF, LF, "b", CR, LF>>,
      <<LF, LF>> }

NewInvocation(op, input, v) ==
    [op |-> op, input |-> input, visitor |-> v, count |-> 0,
     pos |-> 0, out |-> <<>>, pc |-> "run"]

ConcInvocations ==
    {NewInvocation("render", d, v) :
       d \in DocsUpTo(RenderBlocks, MaxConcEvents), v \in {"nop", "counting"}}
      \cup {NewInvocation("strip", d, "nop") : d \in DocsUpTo(StripBlocks, MaxConcEvents)}
      \cup {NewInvocation("extract", str_lines(t), "nop") : t \in ConcTexts}

InitConcurrent ==
    /\ inv \in [Invocations -> ConcInvocations]
    /\ IdleRender
    /\ IdleStrip
    /\ IdleExtract
    /\ IdleDate
    /\ IdleAuthor

ConcPending(i, op) ==
    /\ inv[i].op = op
    /\ inv[i].pc = "run"
    /\ inv[i].pos < Len(inv[i].input)

Others == <<rvars, svars, evars, dvars, avars>>

\* A render step of invocation i that uses and advances the visitor state
\* of invocation 1, as if the two calls shared one visitor.
ConcRenderStep_SharedVisitor(i) ==
    /\ ConcPending(i, "render")
    /\ LET e == inv[i].input[inv[i].pos + 1]
           mine == [inv[i] EXCEPT
                      !.out = @ \o RenderEvent(e, inv[i].visitor, inv[1].count),
                      !.pos = @ + 1]
       IN  inv' = [[inv EXCEPT ![i] = mine] EXCEPT ![1].count = @ + VisitsOf(e)]
    /\ UNCHANGED Others

\* markdown_to_html of invocation i: the closure runs on its next event.
ConcRenderStep(i) ==
    /\ ConcPending(i, "render")
    /\ LET e == inv[i].input[inv[i].pos + 1]
       IN  inv' = [inv EXCEPT
                     ![i].out = @ \o RenderEvent(e, inv[i].visitor, inv[i].count),
                     ![i].count = @ + VisitsOf(e),
                     ![i].pos = @ + 1]
    /\ UNCHANGED Others

\* strip_markdown of invocation i: the loop body runs on its next event.
ConcStripStep(i) ==
    /\ ConcPending(i, "strip")
    /\ inv' = [inv EXCEPT
                 ![i].out = StripEvent(inv[i].input[inv[i].pos + 1], @),
                 ![i].pos = @ + 1]
    /\ UNCHANGED Others

\* extract_description of invocation i: the closure returns None for its
\* next line.
ConcExtractSkip(i) ==
    /\ ConcPending(i, "extract")
    /\ ExtractLine(inv[i].input[inv[i].pos + 1]) = <<>>
    /\ inv' = [inv EXCEPT ![i].pos = @ + 1]
    /\ UNCHANGED Others

\* extract_description of invocation i: the closure returns Some(..) and
\* the call returns it.
ConcExtractFound(i) ==
    /\ ConcPending(i, "extract")
    /\ ExtractLine(inv[i].input[inv[i].pos + 1]) # <<>>
    /\ inv' = [inv EXCEPT
                 ![i].out = ExtractLine(inv[i].input[inv[i].pos + 1])[1],
                 ![i].pos = @ + 1,
                 ![i].pc = "done"]
    /\ UNCHANGED Others

\* Invocation i has consumed its input and returns its html, buffer or
\* (default, empty) description.
ConcReturn(i) ==
    /\ inv[i].op # "none"
    /\ inv[i].pc = "run"
    /\ inv[i].pos = Len(inv[i].input)
    /\ inv' = [inv EXCEPT ![i].pc = "done"]
    /\ UNCHANGED Others

NextConcurrent ==
    \E i \in Invocations :
      \/ ConcRenderStep(i)
      \/ ConcStripStep(i)
      \/ ConcExtractSkip(i)
      \/ ConcExtractFound(i)
      \/ ConcReturn(i)

SpecConcurrent == InitConcurrent /\ [][NextConcurrent]_vars

-----------------------------------------------------------------------------
(* Properties of concurrent invocations *)

\* markdown_to_html run alone on the first n events: the forwarded stream.
RECURSIVE C11_RenderAlone(_, _, _)
C11_RenderAlone(events, v, n) ==
    IF n = 0 THEN <<>>
    ELSE C11_RenderAlone(events, v, n - 1)
           \o RenderEvent(events[n], v,
                          Cardinality({k \in 1..(n - 1) : VisitsOf(events[k]) = 1}))

\* extract_description run alone on the lines from k on.
RECURSIVE C11_ExtractAlone(_, _)
C11_ExtractAlone(ls, k) ==
    IF k > Len(ls) THEN <<>>
    ELSE IF ExtractLine(ls[k]) # <<>> THEN ExtractLine(ls[k])[1]
    ELSE C11_ExtractAlone(ls, k + 1)

\* What the invocation r has produced after its first r.pos steps when
\* nothing else runs.
C11_Alone(r) ==
    CASE r.op = "render" -> C11_RenderAlone(r.input, r.visitor, r.pos)
      [] r.op = "strip" -> StripEvents(SubSeq(r.input, 1, r.pos), <<>>)
      [] r.op = "extract" ->
           IF r.pc = "done" THEN C11_ExtractAlone(r.input, 1) ELSE <<>>
      [] OTHER -> <<>>

\* C11: two invocations on their own inputs and visitors, interleaved step
\* by step in any order, each produce what they produce alone, and a step
\* of one leaves the state of the other as it was.
C11_InvocationsIndependent ==
    /\ [](\A i \in Invocations :
            /\ inv[i].out = C11_Alone(inv[i])
            /\ inv[i].pc = "done" =>
                 inv[i].out = C11_Alone([inv[i] EXCEPT !.pos = Len(inv[i].input)]))
    /\ [][\E i \in Invocations :
            \A j \in Invocations \ {i} : inv'[j] = inv[j]]_vars

C11_Witness ==
    /\ \A i \in Invocations :
         /\ inv[i].op = "render"
         /\ inv[i].visitor = "counting"
         /\ inv[i].pc = "run"
         /\ inv[i].pos >= 2
         /\ inv[i].pos < Len(inv[i].input)
    /\ inv[1].count = 2
    /\ inv[2].count = 1
    /\ inv[1].input # inv[2].input

-----------------------------------------------------------------------------
(* The whole program: one call of one of the operations *)

Init == InitRender \/ InitStrip \/ InitExtract \/ InitDate \/ InitAuthor \/ InitConcurrent

Next == NextRender \/ NextStrip \/ NextExtract \/ NextDate \/ NextAuthor \/ NextConcurrent

Spec == Init /\ [][Next]_vars

=============================================================================
